---- MODULE Spec2Model ----
(***************************************************************************)
(* Model of acme/standalone.py: the stoppable serve loop                   *)
(* (ACMEServerMixin.serve_forever2 / shutdown2), the HTTP request handler  *)
(* (SimpleHTTPRequestHandler / ACMERequestHandler) and the shared set of   *)
(* SimpleHTTP resources.                                                   *)
(*                                                                         *)
(* Two threads of control run the server: the loop thread (serve_forever2) *)
(* and a thread that calls shutdown2.  A third party, the protocol client, *)
(* adds and removes resources in the set the handler iterates over, and    *)
(* remote peers connect to the listening socket.                           *)
(*                                                                         *)
(* Strings the code compares position by position (request paths) are      *)
(* sequences of lexical pieces: "/" and the names between the slashes.     *)
(***************************************************************************)
EXTENDS Naturals, Sequences, FiniteSets

\* ---------------------------------------------------------------- bounds
\* connections remote peers open during one run
MaxConns == 2
\* add/remove operations the protocol client performs during one run
MaxRegOps == 2
\* calls of shutdown2 during one run
MaxShutdowns == 2
\* cap of the counter of handle_request calls started after a shutdown
MaxCycles == 2

\* ------------------------------------------------------------- constants
\* http_client.OK, http_client.NOT_FOUND
OK == 200
NOT_FOUND == 404
\* ACMEServerMixin.server_version
server_version == "ACME standalone client"
\* challenges.SimpleHTTP.URI_ROOT_PATH, ".well-known/acme-challenge"
URI_ROOT_PATH == <<".well-known", "/", "acme-challenge">>
\* the index path "/"
IndexPath == <<"/">>

\* ------------------------------------------------------------ data model
Tokens == {"a", "b"}
Validations == {"v1", "v2"}
\* response.CONTENT_TYPE of the SimpleHTTP response class
ContentTypes == {"text/plain"}

\* SimpleHTTPResource = namedtuple("SimpleHTTPResource", "chall response validation");
\* chall is represented by its token, response by its CONTENT_TYPE
SimpleHTTPResource == [chall : Tokens, response : ContentTypes, validation : Validations]

\* chall.path: "/" + URI_ROOT_PATH + "/" + token
ChallPath(chall) == <<"/">> \o URI_ROOT_PATH \o <<"/", chall>>

\* validation.json_dumps().encode(): the serialized form of a validation object
json_dumps(validation) == <<"{", validation, "}">>

\* paths remote peers ask for: the index, the challenge path of a token
\* that resources are made for, the challenge path of a token that no
\* resource is made for, and a path outside the challenge prefix
RequestPaths ==
    { IndexPath,
      ChallPath("a"),
      ChallPath("c"),
      <<"/", "other">> }

\* str.startswith
startswith(s, prefix) ==
    /\ Len(prefix) <= Len(s)
    /\ SubSeq(s, 1, Len(prefix)) = prefix

\* connections: a GET request for a path, a TLS peer that closes with a
\* zero return before sending a request, the loopback connection of
\* shutdown2 (connects and closes, sends nothing)
GetConn(p) == [kind |-> "get", path |-> p]
ZeroConn == [kind |-> "zero", path |-> <<>>]
DummyConn == [kind |-> "dummy", path |-> <<>>]
NoConn == [kind |-> "none", path |-> <<>>]

Response(status, ctype, body) == [status |-> status, ctype |-> ctype, body |-> body]

\* hostnames certificates are kept for, in the order that makes one of
\* them the first, and the (private key, certificate) pairs
HostOrder == <<"a.example", "b.example", "c.example">>
Hosts == {HostOrder[i] : i \in 1..Len(HostOrder)}
Certificates == {"pairA", "pairB"}

\* the certs dictionaries a caller can pass: hostname -> (key, certificate)
CertificateMaps == UNION {[D -> Certificates] : D \in SUBSET Hosts}

\* the empty dictionary {}
EmptyMap == <<>>

\* keyword arguments of the constructor: with or without "certs"
Kwargs == {<<>>} \cup {[k \in {"certs"} |-> m] : m \in CertificateMaps}

\* the keyword arguments of the server the loop is run on
DefaultKwargs == [k \in {"certs"} |-> [h \in {"a.example"} |-> "pairA"]]

\* server names a TLS client asks for: a known host, an unknown one, or
\* none at all ("")
RequestedNames == Hosts \cup {"unknown.example", ""}

\* TLSServer.__init__: self.certs = kwargs.pop("certs", {})
TLSServer_certs_dropped(kw) == EmptyMap

TLSServer_certs(kw) == IF "certs" \in DOMAIN kw THEN kw["certs"] ELSE EmptyMap

NoCertificate == "none"
NoHandshake == [name |-> "", cert |-> NoCertificate, ok |-> FALSE, done |-> FALSE]

\* the first entry of a non-empty dictionary, the fallback
FirstHost(m) ==
    HostOrder[CHOOSE i \in 1..Len(HostOrder) :
                 /\ HostOrder[i] \in DOMAIN m
                 /\ \A j \in 1..(i - 1) : HostOrder[j] \notin DOMAIN m]

\* certificate selection: the entry of the requested name, else the
\* fallback entry, else (empty dictionary) nothing
pick_certificate(m, name) ==
    IF name \in DOMAIN m THEN m[name]
    ELSE IF DOMAIN m # {} THEN m[FirstHost(m)]
    ELSE NoCertificate

VARIABLES
    tls,                    \* TRUE: ACMETLSServer, FALSE: ACMEServer
    _stopped,               \* ACMEServerMixin._stopped
    sockOpen,               \* the listening socket self.socket is open
    backlog,                \* connections queued on the listening socket
    loopPc,                 \* position of the thread running serve_forever2
    cur,                    \* the connection the handler is working on
    iterUsed,               \* size of the set when the handler's iterator was made
    seen,                   \* resources the iterator has already yielded
    present,                \* resources in the set ever since the iterator was made
    simple_http_resources,  \* the set shared by the handler and the protocol client
    shutPc,                 \* position of the thread calling shutdown2
    shutCalls,              \* completed calls of shutdown2
    calledWhileBlocked,     \* the shutdown2 call under way began with the loop waiting, nothing pending
    last,                   \* what became of the connection the loop accepted last
    proberIgnored,          \* a zero-return peer has been dropped by the handler
    cyclesAfter,            \* handle_request calls started after a shutdown2 returned
    nConns,                 \* connections opened by remote peers
    nRegOps,                \* add/remove operations performed
    startedStopped,         \* serve_forever2 was called with _stopped already true
    kwargs,                 \* keyword arguments the server was constructed with
    certs,                  \* TLSServer.certs
    presented               \* outcome of the last TLS handshake

vars == <<tls, _stopped, sockOpen, backlog, loopPc, cur, iterUsed, seen, present,
          simple_http_resources, shutPc, shutCalls, calledWhileBlocked, last, proberIgnored, cyclesAfter, nConns, nRegOps,
          startedStopped, kwargs, certs, presented>>

\* what only the constructor and the TLS handshake touch
tlsVars == <<kwargs, certs, presented>>

\* TLSServer._wrap_sock: the dictionary the SSL socket is given
_wrap_sock == certs

loopVars == <<loopPc, cur, iterUsed, seen, present, last, proberIgnored, cyclesAfter>>
shutVars == <<shutPc, shutCalls, calledWhileBlocked>>

\* ------------------------------------------------------- request handler
\* SimpleHTTPRequestHandler.do_GET: the branch taken for a path
do_GET_no_index(path) ==
    IF startswith(path, <<"/">> \o URI_ROOT_PATH) THEN "handle_simple_http_resource"
    ELSE "handle_404"

do_GET(path) ==
    IF path = IndexPath THEN "handle_index"
    ELSE IF startswith(path, <<"/">> \o URI_ROOT_PATH) THEN "handle_simple_http_resource"
    ELSE "handle_404"

\* SimpleHTTPRequestHandler.handle_index
handle_index == Response(OK, "text/html", server_version)

\* SimpleHTTPRequestHandler.handle_404
handle_404 == Response(NOT_FOUND, "text/html", "404")

\* the response handle_simple_http_resource writes for a matching resource
serve_resource(resource) ==
    Response(OK, resource.response, json_dumps(resource.validation))

\* exceptions ACMERequestHandler.handle_one_request catches itself
handle_one_request_uncaught == {}

handle_one_request_caught == {"ZeroReturnError"}

\* what became of an accepted connection: the connection, whether it
\* reached the request handler, the responses written to it, the exception
\* raised while handling it, and whether that exception left the handler
\* and was reported by the server's handle_error
LogEntry(conn, dispatched, responses, error) ==
    [conn |-> conn, dispatched |-> dispatched, responses |-> responses,
     error |-> error,
     reported |-> (error # "none" /\ error \notin handle_one_request_caught)]

NoEntry == LogEntry(NoConn, FALSE, <<>>, "none")

\* the handler is done with the connection: the server closes it and
\* handle_request returns to serve_forever2
Finish(responses, error) ==
    /\ last' = LogEntry(cur, TRUE, responses, error)
    /\ proberIgnored' = (proberIgnored \/ (cur.kind = "zero" /\ error \in handle_one_request_caught))
    /\ cur' = NoConn
    /\ loopPc' = "test"
    /\ iterUsed' = 0
    /\ seen' = {}
    /\ present' = {}

\* ---------------------------------------------------------- construction
\* ACMEServer.__init__ / ACMETLSServer.__init__: _stopped = False, then the
\* base class binds and listens
InitServer ==
    /\ tls \in BOOLEAN
    /\ _stopped = FALSE
    /\ sockOpen = TRUE
    /\ backlog = <<>>
    /\ loopPc = "init"
    /\ cur = NoConn
    /\ iterUsed = 0
    /\ seen = {}
    /\ present = {}
    /\ simple_http_resources = {}
    /\ shutPc = "idle"
    /\ shutCalls = 0
    /\ calledWhileBlocked = FALSE
    /\ last = NoEntry
    /\ proberIgnored = FALSE
    /\ cyclesAfter = 0
    /\ nConns = 0
    /\ nRegOps = 0
    /\ startedStopped = FALSE
    /\ presented = NoHandshake

Init ==
    /\ InitServer
    /\ kwargs = DefaultKwargs
    /\ certs = TLSServer_certs(kwargs)

\* ------------------------------------------------------------ serve loop
\* the loop thread calls serve_forever2
serve_forever2_start_do_while ==
    /\ loopPc = "init"
    /\ loopPc' = "call"
    /\ startedStopped' = _stopped
    /\ UNCHANGED <<tlsVars, tls, _stopped, sockOpen, backlog, cur, iterUsed, seen, present,
                   simple_http_resources, shutVars, last, proberIgnored, cyclesAfter, nConns, nRegOps>>

serve_forever2_start ==
    /\ loopPc = "init"
    /\ loopPc' = "test"
    /\ startedStopped' = _stopped
    /\ UNCHANGED <<tlsVars, tls, _stopped, sockOpen, backlog, cur, iterUsed, seen, present,
                   simple_http_resources, shutVars, last, proberIgnored, cyclesAfter, nConns, nRegOps>>

\* `while not self._stopped`
serve_forever2_test_ignoring_flag ==
    /\ loopPc = "test"
    /\ loopPc' = "call"
    /\ UNCHANGED <<tlsVars, startedStopped, tls, _stopped, sockOpen, backlog, cur, iterUsed, seen, present,
                   simple_http_resources, shutVars, last, proberIgnored, cyclesAfter, nConns, nRegOps>>

serve_forever2_test ==
    /\ loopPc = "test"
    /\ loopPc' = IF _stopped THEN "done" ELSE "call"
    /\ UNCHANGED <<tlsVars, startedStopped, tls, _stopped, sockOpen, backlog, cur, iterUsed, seen, present,
                   simple_http_resources, shutVars, last, proberIgnored, cyclesAfter, nConns, nRegOps>>

\* `self.handle_request()` is entered: it asks the listening socket for its
\* timeout and waits for it to become readable; on a closed socket that
\* raises, and the exception leaves serve_forever2
handle_request_enter ==
    /\ loopPc = "call"
    /\ loopPc' = IF sockOpen THEN "select" ELSE "raised"
    /\ cyclesAfter' = IF shutCalls > 0 /\ cyclesAfter < MaxCycles
                        THEN cyclesAfter + 1 ELSE cyclesAfter
    /\ UNCHANGED <<tlsVars, startedStopped, tls, _stopped, sockOpen, backlog, cur, iterUsed, seen, present,
                   simple_http_resources, shutVars, last, proberIgnored, nConns, nRegOps>>

\* the wait returns: a connection is pending on the open listening socket
handle_request_readable ==
    /\ loopPc = "select"
    /\ sockOpen
    /\ backlog # <<>>
    /\ loopPc' = "accept"
    /\ UNCHANGED <<tlsVars, startedStopped, tls, _stopped, sockOpen, backlog, cur, iterUsed, seen, present,
                   simple_http_resources, shutVars, last, proberIgnored, cyclesAfter, nConns, nRegOps>>

\* the listening socket was closed by the other thread during the wait.
\* What the wait does then is not defined by the platform: it may go on
\* waiting for ever (no step), or fail with a bad-descriptor error that
\* leaves serve_forever2 (this step)
handle_request_badfd ==
    /\ loopPc = "select"
    /\ ~sockOpen
    /\ loopPc' = "raised"
    /\ UNCHANGED <<tlsVars, startedStopped, tls, _stopped, sockOpen, backlog, cur, iterUsed, seen, present,
                   simple_http_resources, shutVars, last, proberIgnored, cyclesAfter, nConns, nRegOps>>

\* the TLS handshake of an accepted connection fails when the peer has
\* already gone away without speaking TLS (the loopback connection)
HandshakeFails(conn) == tls /\ conn.kind = "dummy"

\* accept as a threading server would do it: the connection is handed to a
\* handler running on its own and handle_request returns at once
handle_request_accept_threaded ==
    /\ loopPc = "accept"
    /\ IF ~sockOpen
         THEN /\ loopPc' = "test"
              /\ UNCHANGED <<backlog, cur, last>>
         ELSE /\ backlog' = Tail(backlog)
              /\ cur' = Head(backlog)
              /\ loopPc' = "test"
              /\ last' = last
    /\ UNCHANGED <<tlsVars, startedStopped, tls, _stopped, sockOpen, iterUsed, seen, present, proberIgnored,
                   simple_http_resources, shutVars, cyclesAfter, nConns, nRegOps>>

\* get_request(): accept.  socket.error (closed listening socket, failed
\* handshake) makes handle_request return without calling the handler;
\* otherwise the connection is handed to the request handler
handle_request_accept ==
    /\ loopPc = "accept"
    /\ IF ~sockOpen
         THEN /\ loopPc' = "test"
              /\ UNCHANGED <<backlog, cur, last>>
         ELSE /\ backlog' = Tail(backlog)
              /\ IF HandshakeFails(Head(backlog))
                   THEN /\ last' = LogEntry(Head(backlog), FALSE, <<>>, "none")
                        /\ loopPc' = "test"
                        /\ cur' = cur
                   ELSE /\ cur' = Head(backlog)
                        /\ loopPc' = "handle"
                        /\ last' = last
    /\ UNCHANGED <<tlsVars, startedStopped, tls, _stopped, sockOpen, iterUsed, seen, present, proberIgnored,
                   simple_http_resources, shutVars, cyclesAfter, nConns, nRegOps>>

\* do_GET written with `if` in place of `elif`: the index page falls
\* through to the else branch of the second test
handle_one_request_if_for_elif ==
    /\ loopPc = "handle"
    /\ CASE cur.kind = "dummy" -> Finish(<<>>, "none")
         [] cur.kind = "zero" -> Finish(<<>>, "ZeroReturnError")
         [] cur.kind = "get" /\ do_GET(cur.path) = "handle_index" ->
                Finish(<<handle_index, handle_404>>, "none")
         [] cur.kind = "get" /\ do_GET(cur.path) = "handle_404" ->
                Finish(<<handle_404>>, "none")
         [] cur.kind = "get" /\ do_GET(cur.path) = "handle_simple_http_resource" ->
                /\ loopPc' = "iter"
                /\ iterUsed' = Cardinality(simple_http_resources)
                /\ seen' = {}
                /\ present' = simple_http_resources
                /\ UNCHANGED <<cur, last, proberIgnored>>
    /\ UNCHANGED <<tlsVars, startedStopped, tls, _stopped, sockOpen, backlog,
                   simple_http_resources, shutVars, cyclesAfter, nConns, nRegOps>>

\* ACMERequestHandler.handle_one_request up to the choice of the branch:
\* the request line is read (end of stream: return; ZeroReturnError:
\* caught and ignored), then do_GET runs.  The index and 404 branches
\* respond at once; the resource branch makes an iterator over the set
handle_one_request ==
    /\ loopPc = "handle"
    /\ CASE cur.kind = "dummy" -> Finish(<<>>, "none")
         [] cur.kind = "zero" -> Finish(<<>>, "ZeroReturnError")
         [] cur.kind = "get" /\ do_GET(cur.path) = "handle_index" ->
                Finish(<<handle_index>>, "none")
         [] cur.kind = "get" /\ do_GET(cur.path) = "handle_404" ->
                Finish(<<handle_404>>, "none")
         [] cur.kind = "get" /\ do_GET(cur.path) = "handle_simple_http_resource" ->
                /\ loopPc' = "iter"
                /\ iterUsed' = Cardinality(simple_http_resources)
                /\ seen' = {}
                /\ present' = simple_http_resources
                /\ UNCHANGED <<cur, last, proberIgnored>>
    /\ UNCHANGED <<tlsVars, startedStopped, tls, _stopped, sockOpen, backlog,
                   simple_http_resources, shutVars, cyclesAfter, nConns, nRegOps>>

\* a lookup that takes the resource it serves out of the set
handle_simple_http_resource_consuming ==
    /\ loopPc = "iter"
    /\ IF Cardinality(simple_http_resources) # iterUsed
         THEN Finish(<<>>, "RuntimeError") /\ UNCHANGED simple_http_resources
         ELSE IF simple_http_resources \ seen = {}
                THEN Finish(<<>>, "none") /\ UNCHANGED simple_http_resources
                ELSE \E resource \in simple_http_resources \ seen :
                        IF ChallPath(resource.chall) = cur.path
                          THEN /\ Finish(<<serve_resource(resource)>>, "none")
                               /\ simple_http_resources' = simple_http_resources \ {resource}
                          ELSE /\ seen' = seen \cup {resource}
                               /\ UNCHANGED <<loopPc, cur, iterUsed, present, last, proberIgnored,
                                              simple_http_resources>>
    /\ UNCHANGED <<tlsVars, startedStopped, tls, _stopped, sockOpen, backlog,
                   shutVars, cyclesAfter, nConns, nRegOps>>

\* one turn of `for resource in self.simple_http_resources`: the iterator
\* raises RuntimeError when the set changed size since it was made; when
\* nothing is left the loop ends and nothing is written; else the next
\* resource (in the set's order, which is arbitrary) is compared
handle_simple_http_resource ==
    /\ loopPc = "iter"
    /\ IF Cardinality(simple_http_resources) # iterUsed
         THEN Finish(<<>>, "RuntimeError")
         ELSE IF simple_http_resources \ seen = {}
                THEN Finish(<<>>, "none")
                ELSE \E resource \in simple_http_resources \ seen :
                        IF ChallPath(resource.chall) = cur.path
                          THEN Finish(<<serve_resource(resource)>>, "none")
                          ELSE /\ seen' = seen \cup {resource}
                               /\ UNCHANGED <<loopPc, cur, iterUsed, present, last, proberIgnored>>
    /\ UNCHANGED <<tlsVars, startedStopped, tls, _stopped, sockOpen, backlog,
                   simple_http_resources, shutVars, cyclesAfter, nConns, nRegOps>>

\* -------------------------------------------------------------- shutdown
\* `self._stopped = True`, the first statement of shutdown2
shutdown2_stop_unset ==
    /\ shutPc = "idle"
    /\ shutCalls < MaxShutdowns
    /\ _stopped' = _stopped
    /\ shutPc' = "connect"
    /\ calledWhileBlocked' = (loopPc = "select" /\ sockOpen /\ backlog = <<>>)
    /\ UNCHANGED <<tlsVars, startedStopped, tls, sockOpen, backlog, loopVars, simple_http_resources,
                   shutCalls, nConns, nRegOps>>

\* shutdown2 with server_close() moved in front of the dummy request
shutdown2_stop_closing ==
    /\ shutPc = "idle"
    /\ shutCalls < MaxShutdowns
    /\ _stopped' = TRUE
    /\ sockOpen' = FALSE
    /\ backlog' = <<>>
    /\ shutPc' = "connect"
    /\ calledWhileBlocked' = (loopPc = "select" /\ sockOpen /\ backlog = <<>>)
    /\ UNCHANGED <<tlsVars, startedStopped, tls, loopVars, simple_http_resources,
                   shutCalls, nConns, nRegOps>>

shutdown2_stop ==
    /\ shutPc = "idle"
    /\ shutCalls < MaxShutdowns
    /\ _stopped' = TRUE
    /\ shutPc' = "connect"
    /\ calledWhileBlocked' = (loopPc = "select" /\ sockOpen /\ backlog = <<>>)
    /\ UNCHANGED <<tlsVars, startedStopped, tls, sockOpen, backlog, loopVars, simple_http_resources,
                   shutCalls, nConns, nRegOps>>

\* exceptions the try statement of shutdown2 swallows
shutdown2_except_nothing == {}

shutdown2_except == {"socket.error"}

\* the dummy request: sock.connect(self.socket.getsockname()) inside
\* try/except/finally, then sock.close().  On a closed listening socket
\* getsockname raises socket.error
shutdown2_connect ==
    /\ shutPc = "connect"
    /\ IF sockOpen
         THEN /\ backlog' = Append(backlog, DummyConn)
              /\ shutPc' = "server_close"
         ELSE /\ backlog' = backlog
              /\ shutPc' = IF "socket.error" \in shutdown2_except
                             THEN "server_close" ELSE "raised"
    /\ UNCHANGED <<tlsVars, startedStopped, tls, _stopped, sockOpen, loopVars, simple_http_resources,
                   shutCalls, calledWhileBlocked, nConns, nRegOps>>

\* `self.server_close()`: the listening socket is closed (connections
\* still queued on it are dropped) and shutdown2 returns
shutdown2_server_close_reset ==
    /\ shutPc = "server_close"
    /\ sockOpen' = FALSE
    /\ backlog' = <<>>
    /\ _stopped' = FALSE
    /\ shutPc' = "idle"
    /\ shutCalls' = shutCalls + 1
    /\ calledWhileBlocked' = FALSE
    /\ UNCHANGED <<tlsVars, startedStopped, tls, loopVars, simple_http_resources, nConns, nRegOps>>

\* a shutdown that waits for the loop thread before it closes the socket
shutdown2_server_close_joining ==
    /\ shutPc = "server_close"
    /\ loopPc \in {"init", "done", "raised"}
    /\ sockOpen' = FALSE
    /\ backlog' = <<>>
    /\ shutPc' = "idle"
    /\ shutCalls' = shutCalls + 1
    /\ calledWhileBlocked' = FALSE
    /\ UNCHANGED <<tlsVars, startedStopped, tls, _stopped, loopVars, simple_http_resources, nConns, nRegOps>>

shutdown2_server_close ==
    /\ shutPc = "server_close"
    /\ sockOpen' = FALSE
    /\ backlog' = <<>>
    /\ shutPc' = "idle"
    /\ shutCalls' = shutCalls + 1
    /\ calledWhileBlocked' = FALSE
    /\ UNCHANGED <<tlsVars, startedStopped, tls, _stopped, loopVars, simple_http_resources, nConns, nRegOps>>

\* ----------------------------------------------------------- environment
\* a remote peer connects to the listening socket
Connect ==
    /\ sockOpen
    /\ nConns < MaxConns
    /\ \E conn \in {GetConn(p) : p \in RequestPaths} \cup (IF tls THEN {ZeroConn} ELSE {}) :
          backlog' = Append(backlog, conn)
    /\ nConns' = nConns + 1
    /\ UNCHANGED <<tlsVars, startedStopped, tls, _stopped, sockOpen, loopVars, simple_http_resources,
                   shutVars, nRegOps>>

\* the protocol client adds a resource to the shared set
add ==
    /\ nRegOps < MaxRegOps
    /\ \E resource \in SimpleHTTPResource \ simple_http_resources :
          simple_http_resources' = simple_http_resources \cup {resource}
    /\ nRegOps' = nRegOps + 1
    /\ UNCHANGED <<tlsVars, startedStopped, tls, _stopped, sockOpen, backlog, loopVars, shutVars, nConns>>

\* the protocol client removes a resource from the shared set
remove ==
    /\ nRegOps < MaxRegOps
    /\ \E resource \in simple_http_resources :
          /\ simple_http_resources' = simple_http_resources \ {resource}
          /\ present' = present \ {resource}
    /\ nRegOps' = nRegOps + 1
    /\ UNCHANGED <<tlsVars, startedStopped, tls, _stopped, sockOpen, backlog, loopPc, cur, iterUsed, seen,
                   last, proberIgnored, cyclesAfter, shutVars, nConns>>

\* --------------------------------------------------------- specification
LoopStep ==
    \/ serve_forever2_test
    \/ handle_request_enter
    \/ handle_request_readable
    \/ handle_request_accept
    \/ handle_one_request
    \/ handle_simple_http_resource

ShutdownStep ==
    \/ shutdown2_connect
    \/ shutdown2_server_close

Next ==
    \/ serve_forever2_start
    \/ serve_forever2_test
    \/ handle_request_enter
    \/ handle_request_readable
    \/ handle_request_badfd
    \/ handle_request_accept
    \/ handle_one_request
    \/ handle_simple_http_resource
    \/ shutdown2_stop
    \/ shutdown2_connect
    \/ shutdown2_server_close
    \/ Connect
    \/ add
    \/ remove

Spec == Init /\ [][Next]_vars

\* both threads keep running once started: a step of the loop thread or of
\* a shutdown2 call under way is eventually taken while it stays possible
FairSpec == Spec /\ WF_vars(LoopStep) /\ WF_vars(ShutdownStep)

\* ------------------------------------------------------- simple_server
\* simple_server builds an ACMETLSServer with an empty resources
\* dictionary and, without "forever", calls handle_request() once
SimpleInit ==
    /\ InitServer
    /\ tls
    /\ kwargs \in {kw \in Kwargs : "certs" \in DOMAIN kw}
    /\ certs = TLSServer_certs(kwargs)

\* else: server.handle_request()
simple_server_start ==
    /\ loopPc = "init"
    /\ loopPc' = "call"
    /\ UNCHANGED <<tlsVars, startedStopped, tls, _stopped, sockOpen, backlog, cur, iterUsed, seen,
                   present, simple_http_resources, shutVars, last, proberIgnored,
                   cyclesAfter, nConns, nRegOps>>

\* handle_request() has returned ("test" is where it leaves the thread):
\* simple_server falls off its end
simple_server_return ==
    /\ loopPc = "test"
    /\ loopPc' = "done"
    /\ UNCHANGED <<tlsVars, startedStopped, tls, _stopped, sockOpen, backlog, cur, iterUsed, seen,
                   present, simple_http_resources, shutVars, last, proberIgnored,
                   cyclesAfter, nConns, nRegOps>>

\* a peer that connects and goes away without starting a TLS handshake
ConnectAndClose ==
    /\ sockOpen
    /\ nConns < MaxConns
    /\ backlog' = Append(backlog, DummyConn)
    /\ nConns' = nConns + 1
    /\ UNCHANGED <<tlsVars, startedStopped, tls, _stopped, sockOpen, loopVars, simple_http_resources,
                   shutVars, nRegOps>>

SimpleNext ==
    \/ simple_server_start
    \/ handle_request_enter
    \/ handle_request_readable
    \/ handle_request_accept
    \/ handle_one_request
    \/ handle_simple_http_resource
    \/ simple_server_return
    \/ Connect
    \/ ConnectAndClose

SimpleSpec == SimpleInit /\ [][SimpleNext]_vars

\* ------------------------------------------------------- TLS certificates
\* a TLS server constructed with any keyword arguments
CertInit ==
    /\ InitServer
    /\ tls
    /\ kwargs \in Kwargs
    /\ certs = TLSServer_certs(kwargs)

\* a client's handshake on the wrapped socket: it asks for a server name
\* (or none) and is presented the certificate picked from the dictionary
do_handshake ==
    /\ \E name \in RequestedNames :
          LET cert == pick_certificate(_wrap_sock, name)
          IN  presented' = [name |-> name, cert |-> cert,
                            ok |-> cert # NoCertificate, done |-> TRUE]
    /\ UNCHANGED <<kwargs, certs, startedStopped, tls, _stopped, sockOpen, backlog, loopVars,
                   simple_http_resources, shutVars, nConns, nRegOps>>

CertNext == do_handshake

CertSpec == CertInit /\ [][CertNext]_vars

\* ---------------------------------------------------------------- claims
\* a step in which the handler finishes the request it is working on
FinishesRequest ==
    /\ loopPc \in {"handle", "iter"}
    /\ loopPc' = "test"

\* C1 (as stated): the loopback connection of shutdown2 never reaches the
\* request handler: the loop exits on its flag check before dispatching it
C1_DummyNeverDispatched ==
    /\ cur.kind # "dummy"
    /\ last.conn.kind = "dummy" => ~last.dispatched

\* C1 (amended): the loopback connection of shutdown2 exists only once
\* _stopped is true; when the loop accepts it, it gets no response and
\* raises no reported error, and it is the last connection the loop ever
\* accepts: after it the loop is at its flag test or has returned
C1_DummyIsLastAndUnanswered ==
    [][/\ cur'.kind = "dummy" => _stopped'
       /\ last'.conn.kind = "dummy" =>
             /\ last'.responses = <<>>
             /\ ~last'.reported
             /\ cur' = NoConn
             /\ loopPc' \in {"test", "done"}
       /\ last.conn.kind = "dummy" => last' = last]_vars

C1_Witness ==
    /\ loopPc = "done"
    /\ last.conn.kind = "dummy"
    /\ last.dispatched

\* C2 (as stated): a GET whose path is not "/" and equals the path of no
\* resource in the set is answered with 404 Not Found and the body "404"
C2_UnmatchedGets404 ==
    [][(/\ FinishesRequest
        /\ cur.kind = "get"
        /\ cur.path # IndexPath
        /\ \A r \in simple_http_resources : ChallPath(r.chall) # cur.path)
       => last'.responses = <<Response(404, "text/html", "404")>>]_vars

\* C3 (as stated): when shutdown2 is called while the loop thread waits in
\* handle_request with no connection pending, the loop thread eventually
\* returns from serve_forever2
C3_BlockedLoopReturns ==
    (calledWhileBlocked /\ shutPc = "connect") ~> (loopPc = "done")

\* C4: shutdown2 never raises and never waits: every position of a call
\* under way has its next step enabled whatever the loop does, and once a
\* call has returned _stopped is true and the listening socket is closed;
\* this holds for a repeated call, with the loop exited or never started
C4_ShutdownIdempotent ==
    /\ shutPc # "raised"
    /\ shutPc = "connect" => ENABLED shutdown2_connect
    /\ shutPc = "server_close" => ENABLED shutdown2_server_close
    /\ (shutCalls > 0 /\ shutPc = "idle") => (_stopped /\ ~sockOpen)

C4_Witness ==
    /\ shutCalls >= 2
    /\ shutPc = "idle"
    /\ loopPc \in {"init", "done"}

\* C5: once a call of shutdown2 has returned, the loop thread enters
\* handle_request at most once more, and the next time it tests the flag
\* it leaves serve_forever2
C5_AtMostOneMoreCycle ==
    [][/\ cyclesAfter' <= 1
       /\ (shutCalls > 0 /\ loopPc = "test" /\ loopPc' # "test") => loopPc' = "done"]_vars

C5_Witness ==
    /\ cyclesAfter = 1
    /\ shutCalls > 0

\* C6 (as stated, for sets in which no two resources share a path): a GET
\* for the path of a resource that is in the set during the whole lookup
\* is answered with 200, the resource's content type and its serialized
\* validation
C6_RegisteredIsServed ==
    [][(/\ FinishesRequest
        /\ loopPc = "iter"
        /\ \A r1, r2 \in simple_http_resources : r1.chall = r2.chall => r1 = r2)
       => \A r \in present :
             ChallPath(r.chall) = cur.path =>
                 last'.responses =
                     <<Response(200, r.response, json_dumps(r.validation))>>]_vars

\* C7: a GET for "/" is answered with 200 and the server identification
\* string as body, whatever the set of resources contains
C7_IndexAlways200 ==
    last.conn = GetConn(IndexPath) =>
        /\ last.dispatched
        /\ last.error = "none"
        /\ Len(last.responses) = 1
        /\ last.responses[1].status = 200
        /\ last.responses[1].body = server_version

C7_Witness ==
    /\ simple_http_resources # {}
    /\ nRegOps = 1
    /\ last.conn = GetConn(IndexPath)

\* C8: a TLS peer that closes with a zero return before sending a request
\* is dropped without a response and without an error reported, and the
\* loop goes back to its flag test, from where later connections are served
C8_ZeroReturnIgnored ==
    [][(loopPc = "handle" /\ cur.kind = "zero" /\ loopPc' # "handle")
       => /\ loopPc' = "test"
          /\ last'.conn = cur
          /\ last'.responses = <<>>
          /\ ~last'.reported]_vars

C8_Witness ==
    /\ proberIgnored
    /\ last.conn.kind = "get"
    /\ last.responses # <<>>

\* C9 (as stated): a lookup that runs while the protocol client adds or
\* removes a resource never fails
C9_LookupNeverFails ==
    last.error # "RuntimeError"

\* C10: _stopped is false from construction until shutdown2 is first
\* called, and once true it is never set back to false
C10_StoppedMonotonic ==
    /\ ~_stopped
    /\ [][/\ _stopped => _stopped'
          /\ (shutCalls' = 0 /\ shutPc' = "idle") => ~_stopped']_vars

C10_Witness ==
    /\ _stopped
    /\ shutCalls >= 2
    /\ loopPc = "done"

\* C11: connections are handled strictly one at a time: a connection is
\* with the handler exactly while the loop thread is inside the handler,
\* and the loop takes the next connection off the listening socket only
\* from its accept position, when the previous connection is closed
C11_OneAtATime ==
    /\ []((cur # NoConn) <=> (loopPc \in {"handle", "iter"}))
    /\ [][(sockOpen' /\ backlog # <<>> /\ backlog' = Tail(backlog))
          => (loopPc = "accept" /\ cur = NoConn)]_vars

C11_Witness ==
    /\ last.dispatched
    /\ cur # NoConn
    /\ loopPc = "iter"

\* C14: in shutdown2 the flag is set before the loopback connection is
\* opened and the listening socket is closed only after the connection
\* attempt: whenever the loopback connection exists _stopped is true, the
\* socket is closed only by the step that follows the attempt, and while
\* the attempt of the first call is still to come the socket is open
C14_ShutdownOrder ==
    [][/\ (cur' = DummyConn \/ \E i \in 1..Len(backlog') : backlog'[i] = DummyConn) => _stopped'
       /\ (sockOpen /\ ~sockOpen') => (shutPc = "server_close" /\ _stopped)
       /\ (shutCalls' = 0 /\ shutPc' = "connect") => sockOpen']_vars

C14_Witness ==
    /\ cur = DummyConn
    /\ ~sockOpen
    /\ _stopped

\* C15: shutdown2 does not wait for the loop thread: wherever the loop
\* is, a call can begin and every step of a call under way is enabled, so
\* the call completes by its own steps alone
C15_ShutdownNeverWaits ==
    /\ (shutPc = "idle" /\ shutCalls < MaxShutdowns) => ENABLED shutdown2_stop
    /\ shutPc # "idle" => ENABLED ShutdownStep

C15_Witness ==
    /\ shutPc = "idle"
    /\ shutCalls > 0
    /\ cur.kind = "get"
    /\ loopPc \in {"handle", "iter"}

\* C16: handling a request never changes the set of resources: every
\* step of the handler (index, resource or 404 branch) leaves it as it was
C16_HandlerLeavesRegistry ==
    [][(loopPc \in {"handle", "iter"} /\ (loopPc' # loopPc \/ seen' # seen))
       => simple_http_resources' = simple_http_resources]_vars

C16_Witness ==
    /\ last.conn = GetConn(ChallPath("a"))
    /\ last.responses # <<>>
    /\ simple_http_resources # {}

\* C17: every GET gets at most one response, the one of the single branch
\* its path selects; in the resource branch it is the response of one
\* resource with that path, also when several resources share the path
C17_AtMostOneResponse ==
    /\ Len(last.responses) <= 1
    /\ (last.conn.kind = "get" /\ last.responses # <<>>) =>
          IF last.conn.path = <<"/">>
            THEN last.responses[1] = Response(200, "text/html", server_version)
            ELSE IF startswith(last.conn.path, <<"/">> \o URI_ROOT_PATH)
              THEN \E r \in SimpleHTTPResource :
                      /\ ChallPath(r.chall) = last.conn.path
                      /\ last.responses[1] = Response(200, r.response, json_dumps(r.validation))
              ELSE last.responses[1] = Response(404, "text/html", "404")

C17_Witness ==
    /\ last.conn = GetConn(ChallPath("a"))
    /\ Len(last.responses) = 1
    /\ \E r1, r2 \in simple_http_resources :
          r1 # r2 /\ r1.chall = "a" /\ r2.chall = "a"

\* C18 (as stated): the loop thread never enters handle_request on a
\* listening socket that shutdown2 has closed, so it never fails there
C18_NoCycleOnClosedSocket ==
    [][(loopPc = "call" /\ loopPc' # "call") => (sockOpen /\ loopPc' = "select")]_vars

\* C12: without "forever", simple_server handles exactly one request and
\* then returns: it has returned only after the request handler was given
\* one connection and finished with it, and once one connection is
\* finished nothing more is accepted or served, whatever is still pending
C12_ExactlyOneRequest ==
    /\ [](loopPc = "done" => (last.dispatched /\ cur = NoConn))
    /\ [][(last # NoEntry)
          => (last' = last /\ cur' = NoConn /\ loopPc' \in {"test", "done"})]_vars

\* the dictionary the caller passed ({} when none was passed)
GivenMap == IF "certs" \in DOMAIN kwargs THEN kwargs["certs"] ELSE EmptyMap

C19_StoppedBeforeStart ==
    startedStopped =>
        /\ loopPc \in {"test", "done"}
        /\ cur = NoConn
        /\ last = NoEntry

\* the loop, started after a completed shutdown2, has returned
C19_Witness ==
    /\ startedStopped
    /\ loopPc = "done"
    /\ shutPc = "idle"
    /\ shutCalls > 0

====
